---- MODULE Spec2Model ----
(***************************************************************************)
(* Edit Distance (Levenshtein) Visualizer: the trace builder               *)
(* computeEditDistanceSteps and the backtrace walk buildBacktrace of       *)
(* src/src/App.tsx.                                                        *)
(*                                                                         *)
(* A JavaScript string is a sequence of one-character strings, so a[i - 1] *)
(* of the source is a[i] here.  A nullable value (parent[i][j], from) is   *)
(* <<>> for null and a one-element / two-element tuple otherwise.          *)
(***************************************************************************)
EXTENDS Integers, Sequences, FiniteSets, TLC

VARIABLES a, b, dp, steps, parent, pc, endI, endJ, bi, bj, path, chain,
          stepIdx, playing, timer, phase, lastDeps

\* the state of the component EditDistanceVisualizer: the cursor, the
\* autoplay flag, whether the autoplay timeout is pending, where the
\* component is in React's render / effects cycle, and the dependency
\* values [playing, stepIdx, maxStep] of the last committed render
uiVars == <<stepIdx, playing, timer, phase, lastDeps>>

vars == <<a, b, dp, steps, parent, pc, endI, endJ, bi, bj, path, chain,
          stepIdx, playing, timer, phase, lastDeps>>

\* ---- bounds of the model -------------------------------------------------

\* longest input string of Spec, where the backtrace starts at the final cell
MaxLen == 3

\* longest input string of WalkSpec, where the backtrace starts at any cell
MaxWalkLen == 2

\* longest string typed into an input field in UISpec
MaxEditLen == 1

\* the characters kept of the component's initial strings in UISpec
InitLen == 3

Alphabet == {"a", "b", "c"}

RECURSIVE StringsOfLen(_)
StringsOfLen(k) ==
    IF k = 0 THEN {<<>>}
    ELSE {Append(s, c) : s \in StringsOfLen(k - 1), c \in Alphabet}

Strings(maxLen) == UNION {StringsOfLen(k) : k \in 0..maxLen}

\* ---- computeEditDistanceSteps -------------------------------------------

EMPTY == "empty-set sign"

Candidate(op, from, value) == [op |-> op, from |-> from, value |-> value]

ParentLink(i, j, op) == <<[i |-> i, j |-> j, op |-> op]>>

\* Math.min of three numbers
MathMin3(x, y, z) ==
    IF x <= y /\ x <= z THEN x ELSE IF y <= z THEN y ELSE z

\* the tables as allocated: dp filled with 0, parent with null, no steps
NewTables(m, n) ==
    [dp     |-> [i \in 0..m |-> [j \in 0..n |-> 0]],
     parent |-> [i \in 0..m |-> [j \in 0..n |-> <<>>]],
     steps  |-> <<>>]

\* mutant: the origin pushes no Step
OriginStep_NotPushed(t, i) == <<>>

\* mutant: the origin Step is labelled like the rest of the first column
OriginStep_Delete(t, i) ==
    <<[i |-> i, j |-> 0, aChar |-> EMPTY, bChar |-> EMPTY, cost |-> t[i][0],
       candidates |-> <<Candidate("delete", <<>>, 0)>>,
       chosen |-> Candidate("delete", <<>>, 0)]>>

\* the Step pushed for the origin
OriginStep(t, i) ==
    <<[i |-> i, j |-> 0, aChar |-> EMPTY, bChar |-> EMPTY, cost |-> t[i][0],
       candidates |-> <<Candidate("init", <<>>, 0)>>,
       chosen |-> Candidate("init", <<>>, 0)]>>

\* mutant: the origin gets a parent link like the rest of the first column
FirstColParent_NoOriginCase(i) == ParentLink(i - 1, 0, "delete")

\* the parent link of cell (i,0): none for the origin
FirstColParent(i) ==
    IF i = 0 THEN <<>> ELSE ParentLink(i - 1, 0, "delete")

\* body of the first loop: cell (i,0)
InitColBody(st, sa, i) ==
    LET dp1  == [st.dp EXCEPT ![i][0] = i]
        par1 == [st.parent EXCEPT ![i][0] = FirstColParent(i)]
        pushed ==
            IF i > 0
            THEN <<[i |-> i, j |-> 0, aChar |-> sa[i], bChar |-> EMPTY,
                    cost |-> dp1[i][0],
                    candidates |-> <<Candidate("delete", <<i - 1, 0>>, dp1[i][0])>>,
                    chosen |-> Candidate("delete", <<i - 1, 0>>, dp1[i][0])]>>
            ELSE OriginStep(dp1, i)
    IN  [dp |-> dp1, parent |-> par1, steps |-> st.steps \o pushed]

RECURSIVE InitColLoop(_, _, _, _)
InitColLoop(st, sa, i, m) ==
    IF i <= m THEN InitColLoop(InitColBody(st, sa, i), sa, i + 1, m) ELSE st

\* body of the second loop: cell (0,j)
InitRowBody(st, sb, j) ==
    LET dp1  == [st.dp EXCEPT ![0][j] = j]
        par1 == [st.parent EXCEPT ![0][j] = ParentLink(0, j - 1, "insert")]
        pushed ==
            [i |-> 0, j |-> j, aChar |-> EMPTY, bChar |-> sb[j],
             cost |-> dp1[0][j],
             candidates |-> <<Candidate("insert", <<0, j - 1>>, dp1[0][j])>>,
             chosen |-> Candidate("insert", <<0, j - 1>>, dp1[0][j])]
    IN  [dp |-> dp1, parent |-> par1, steps |-> Append(st.steps, pushed)]

RECURSIVE InitRowLoop(_, _, _, _)
InitRowLoop(st, sb, j, n) ==
    IF j <= n THEN InitRowLoop(InitRowBody(st, sb, j), sb, j + 1, n) ELSE st

\* mutant: a substitution is charged even when the characters are equal
DiagCost_AlwaysOne(sa, sb, i, j) == 1

\* cost added on the diagonal: 0 when the characters are equal, else 1
DiagCost(sa, sb, i, j) == IF sa[i] = sb[j] THEN 0 ELSE 1

\* mutant: the diagonal candidate is labelled match whatever the characters
DiagOp_AlwaysMatch(sa, sb, i, j) == "match"

\* mutant: the two labels of the diagonal candidate are exchanged
DiagOp_Swapped(sa, sb, i, j) == IF sa[i] = sb[j] THEN "replace" ELSE "match"

DiagOp(sa, sb, i, j) == IF sa[i] = sb[j] THEN "match" ELSE "replace"

\* mutant: tie-break in array order, delete > insert > diagonal
Choose_ArrayOrder(candidates, minVal) ==
    IF candidates[1].value = minVal THEN candidates[1]
    ELSE IF candidates[2].value = minVal THEN candidates[2] ELSE candidates[3]

\* mutant: the diagonal candidate is taken whatever its value
Choose_AlwaysDiag(candidates, minVal) == candidates[3]

\* deterministic tie-break: diagonal (match/replace) > delete > insert
Choose(candidates, minVal) ==
    LET diag == candidates[3]
        delC == candidates[1]
        insC == candidates[2]
    IN  IF diag.value = minVal THEN diag
        ELSE IF delC.value = minVal THEN delC ELSE insC

\* mutant: the two coordinates of the source cell are exchanged
ParentOfChosen_Swapped(chosen) ==
    IF chosen.from # <<>>
    THEN ParentLink(chosen.from[2], chosen.from[1], chosen.op)
    ELSE <<>>

\* the parent link recorded for the chosen candidate
ParentOfChosen(chosen) ==
    IF chosen.from # <<>>
    THEN ParentLink(chosen.from[1], chosen.from[2], chosen.op)
    ELSE <<>>

\* body of the fill loop: interior cell (i,j)
FillBody(st, sa, sb, i, j) ==
    LET del == st.dp[i - 1][j] + 1
        ins == st.dp[i][j - 1] + 1
        rep == st.dp[i - 1][j - 1] + DiagCost(sa, sb, i, j)
        candidates ==
            <<Candidate("delete", <<i - 1, j>>, del),
              Candidate("insert", <<i, j - 1>>, ins),
              Candidate(DiagOp(sa, sb, i, j), <<i - 1, j - 1>>, rep)>>
        minVal == MathMin3(del, ins, rep)
        chosen == Choose(candidates, minVal)
        dp1    == [st.dp EXCEPT ![i][j] = chosen.value]
        par1   == [st.parent EXCEPT ![i][j] = ParentOfChosen(chosen)]
        pushed == [i |-> i, j |-> j, aChar |-> sa[i], bChar |-> sb[j],
                   cost |-> dp1[i][j],
                   candidates |-> candidates, chosen |-> chosen]
    IN  [dp |-> dp1, parent |-> par1, steps |-> Append(st.steps, pushed)]

RECURSIVE FillInnerLoop(_, _, _, _, _, _)
FillInnerLoop(st, sa, sb, i, j, n) ==
    IF j <= n
    THEN FillInnerLoop(FillBody(st, sa, sb, i, j), sa, sb, i, j + 1, n)
    ELSE st

RECURSIVE FillLoop(_, _, _, _, _, _)
FillLoop(st, sa, sb, i, m, n) ==
    IF i <= m
    THEN FillLoop(FillInnerLoop(st, sa, sb, i, 1, n), sa, sb, i + 1, m, n)
    ELSE st

\* mutant: the first row is initialised before the first column
computeEditDistanceSteps_RowFirst(sa, sb) ==
    LET m == Len(sa)
        n == Len(sb)
    IN  FillLoop(
            InitColLoop(
                InitRowLoop(NewTables(m, n), sb, 1, n),
                sa, 0, m),
            sa, sb, 1, m, n)

computeEditDistanceSteps(sa, sb) ==
    LET m == Len(sa)
        n == Len(sb)
    IN  FillLoop(
            InitRowLoop(
                InitColLoop(NewTables(m, n), sa, 0, m),
                sb, 1, n),
            sa, sb, 1, m, n)

\* ---- buildBacktrace ------------------------------------------------------

\* the template string `${i},${j}`
Key(i, j) == ToString(i) \o "," \o ToString(j)

\* parent[i]?.[j]: undefined (falsy, as null) outside the table
ParentAt(par, i, j) ==
    IF i \in DOMAIN par /\ j \in DOMAIN par[i] THEN par[i][j] ELSE <<>>

\* mutant: the start cell is checked against the table
BacktraceEntry_Checked(par, m, n) ==
    IF m \in DOMAIN par /\ n \in DOMAIN par[m]
    THEN [thrown |-> "none", i |-> m, j |-> n, path |-> {Key(m, n)}]
    ELSE [thrown |-> "OutOfRange", i |-> m, j |-> n, path |-> {}]

\* entry of buildBacktrace: no argument check, the start cell is added
BacktraceEntry(par, m, n) ==
    [thrown |-> "none", i |-> m, j |-> n, path |-> {Key(m, n)}]

\* ---- the state machine ---------------------------------------------------

InitWith(inputs) ==
    /\ a \in inputs
    /\ b \in inputs
    /\ dp = <<>>
    /\ steps = <<>>
    /\ parent = <<>>
    /\ pc = "input"
    /\ endI = 0
    /\ endJ = 0
    /\ bi = 0
    /\ bj = 0
    /\ path = {}
    /\ chain = <<>>
    /\ stepIdx = 0
    /\ playing = FALSE
    /\ timer = FALSE
    /\ phase = "unmounted"
    /\ lastDeps = <<>>

Init == InitWith(Strings(MaxLen))

WalkInit == InitWith(Strings(MaxWalkLen))

\* the call computeEditDistanceSteps(a, b)
Compute ==
    /\ pc = "input"
    /\ LET r == computeEditDistanceSteps(a, b)
       IN  /\ dp' = r.dp
           /\ steps' = r.steps
           /\ parent' = r.parent
    /\ pc' = "built"
    /\ UNCHANGED <<a, b, endI, endJ, bi, bj, path, chain>>
    /\ UNCHANGED uiVars

\* the call buildBacktrace(parent, m, n) up to the loop; chain lists the
\* cells in the order they are added to path
BacktraceCall(m, n) ==
    /\ pc = "built"
    /\ LET e == BacktraceEntry(parent, m, n)
       IN  /\ pc' = IF e.thrown = "none" THEN "walking" ELSE e.thrown
           /\ bi' = e.i
           /\ bj' = e.j
           /\ path' = e.path
           /\ chain' = IF e.thrown = "none" THEN <<<<e.i, e.j>>>> ELSE <<>>
    /\ endI' = m
    /\ endJ' = n
    /\ UNCHANGED <<a, b, dp, steps, parent>>
    /\ UNCHANGED uiVars

\* the call as the component makes it: from the final cell of the table
BacktraceFinal == BacktraceCall(Len(a), Len(b))

\* the call with any start cell, inside the table or one off its edges
BacktraceAny ==
    \E m \in -1..(Len(a) + 1), n \in -1..(Len(b) + 1) : BacktraceCall(m, n)

\* one iteration of while (true) that follows a parent link
BacktraceFollow ==
    /\ pc = "walking"
    /\ LET p == ParentAt(parent, bi, bj)
       IN  /\ p # <<>>
           /\ bi' = p[1].i
           /\ bj' = p[1].j
           /\ path' = path \cup {Key(p[1].i, p[1].j)}
           /\ chain' = Append(chain, <<p[1].i, p[1].j>>)
    /\ UNCHANGED <<a, b, dp, steps, parent, pc, endI, endJ>>
    /\ UNCHANGED uiVars

\* the iteration that breaks out of the loop, and the return
BacktraceReturn ==
    /\ pc = "walking"
    /\ ParentAt(parent, bi, bj) = <<>>
    /\ pc' = "returned"
    /\ UNCHANGED <<a, b, dp, steps, parent, endI, endJ, bi, bj, path, chain>>
    /\ UNCHANGED uiVars

Next ==
    \/ Compute
    \/ BacktraceFinal
    \/ BacktraceFollow
    \/ BacktraceReturn

Spec == Init /\ [][Next]_vars

WalkNext ==
    \/ Compute
    \/ BacktraceAny
    \/ BacktraceFollow
    \/ BacktraceReturn

WalkSpec == WalkInit /\ [][WalkNext]_vars

\* the loop of a call that has started runs on: the function is synchronous
FairWalkSpec ==
    WalkSpec /\ WF_vars(BacktraceFollow) /\ WF_vars(BacktraceReturn)

\* ---- EditDistanceVisualizer --------------------------------------------

MathMax(x, y) == IF x >= y THEN x ELSE y

MathMin(x, y) == IF x <= y THEN x ELSE y

clamp(n, lo, hi) == MathMax(lo, MathMin(hi, n))

\* steps.length - 1 of the Step list of the last render
maxStep == Len(steps) - 1

walkVars == <<pc, endI, endJ, bi, bj, path, chain>>

\* useState("intention") and useState("execution"), cut to InitLen characters
InitialA == SubSeq(<<"i", "n", "t", "e", "n", "t", "i", "o", "n">>, 1, InitLen)

InitialB == SubSeq(<<"e", "x", "e", "c", "u", "t", "i", "o", "n">>, 1, InitLen)

\* the component as constructed: the useState initial values, not yet rendered
UIInit ==
    /\ a = InitialA
    /\ b = InitialB
    /\ dp = <<>>
    /\ steps = <<>>
    /\ parent = <<>>
    /\ pc = "component"
    /\ endI = 0
    /\ endJ = 0
    /\ bi = 0
    /\ bj = 0
    /\ path = {}
    /\ chain = <<>>
    /\ stepIdx = 0
    /\ playing = FALSE
    /\ timer = FALSE
    /\ phase = "render"
    /\ lastDeps = <<>>

\* the phase after an event handler or an effect: a render is scheduled when
\* a state value changed
AfterUpdate(changed) == IF changed THEN "render" ELSE "idle"

\* a render reads steps[stepIdx] into cur, then steps[k].i for k = 0..stepIdx
\* and cur.i: reading a field of undefined throws
RenderReads(list, idx) ==
    IF 0 <= idx /\ idx <= Len(list) - 1 THEN "effects" ELSE "crashed"

\* one render of the component: useMemo recomputes the tables for the
\* current a and b, then the body reads the Step list at the cursor
Render ==
    /\ phase = "render"
    /\ LET r == computeEditDistanceSteps(a, b)
       IN  /\ dp' = r.dp
           /\ steps' = r.steps
           /\ parent' = r.parent
           /\ phase' = RenderReads(r.steps, stepIdx)
    /\ UNCHANGED <<a, b, stepIdx, playing, timer, lastDeps>>
    /\ UNCHANGED walkVars

\* the effects of a committed render, in source order: the clamp effect,
\* keyed on maxStep, then the autoplay effect, keyed on playing, stepIdx and
\* maxStep (speed is not modelled), which clears its timeout and arms a new
\* one when playing and stepIdx < maxStep
Effects ==
    /\ phase = "effects"
    /\ LET deps == <<playing, stepIdx, maxStep>>
           clampRuns == lastDeps = <<>> \/ lastDeps[3] # maxStep
           autoplayRuns == lastDeps # deps
           clamped == IF clampRuns THEN clamp(stepIdx, 0, maxStep) ELSE stepIdx
           paused == IF clampRuns THEN FALSE ELSE playing
       IN  /\ stepIdx' = clamped
           /\ playing' = paused
           /\ timer' = IF autoplayRuns THEN playing /\ stepIdx < maxStep
                        ELSE timer
           /\ lastDeps' = deps
           /\ phase' = AfterUpdate(clamped # stepIdx \/ paused # playing)
    /\ UNCHANGED <<a, b, dp, steps, parent>>
    /\ UNCHANGED walkVars

\* onChange of the input of string A
SetA(v) ==
    /\ phase = "idle"
    /\ v # a
    /\ a' = v
    /\ phase' = "render"
    /\ UNCHANGED <<b, dp, steps, parent, stepIdx, playing, timer, lastDeps>>
    /\ UNCHANGED walkVars

\* onChange of the input of string B
SetB(v) ==
    /\ phase = "idle"
    /\ v # b
    /\ b' = v
    /\ phase' = "render"
    /\ UNCHANGED <<a, dp, steps, parent, stepIdx, playing, timer, lastDeps>>
    /\ UNCHANGED walkVars

EditA == \E v \in Strings(MaxEditLen) : SetA(v)

EditB == \E v \in Strings(MaxEditLen) : SetB(v)

\* onClick of Play / Pause
PlayPause ==
    /\ phase = "idle"
    /\ playing' = ~playing
    /\ phase' = "render"
    /\ UNCHANGED <<a, b, dp, steps, parent, stepIdx, timer, lastDeps>>
    /\ UNCHANGED walkVars

\* onClick of Step
StepClick ==
    /\ phase = "idle"
    /\ playing' = FALSE
    /\ stepIdx' = clamp(stepIdx + 1, 0, maxStep)
    /\ phase' = AfterUpdate(playing \/ stepIdx' # stepIdx)
    /\ UNCHANGED <<a, b, dp, steps, parent, timer, lastDeps>>
    /\ UNCHANGED walkVars

\* onClick of Reset
ResetClick ==
    /\ phase = "idle"
    /\ playing' = FALSE
    /\ stepIdx' = 0
    /\ phase' = AfterUpdate(playing \/ stepIdx # 0)
    /\ UNCHANGED <<a, b, dp, steps, parent, timer, lastDeps>>
    /\ UNCHANGED walkVars

\* the autoplay timeout fires
TimerTick ==
    /\ phase = "idle"
    /\ timer
    /\ timer' = FALSE
    /\ stepIdx' = clamp(stepIdx + 1, 0, maxStep)
    /\ phase' = AfterUpdate(stepIdx' # stepIdx)
    /\ UNCHANGED <<a, b, dp, steps, parent, playing, lastDeps>>
    /\ UNCHANGED walkVars

UINext ==
    \/ Render
    \/ Effects
    \/ EditA
    \/ EditB
    \/ PlayPause
    \/ StepClick
    \/ ResetClick
    \/ TimerTick

UISpec == UIInit /\ [][UINext]_vars

\* ---- shorthands -----------------------------------------------------------

lenA == Len(a)
lenB == Len(b)

Built == pc # "input"

\* computeEditDistanceSteps has just returned; no later action writes dp,
\* steps or parent
TablesReturned == pc = "built"

Cell(k) == <<steps[k].i, steps[k].j>>

Interior(k) == steps[k].i >= 1 /\ steps[k].j >= 1

Min2(x, y) == IF x <= y THEN x ELSE y

\* ---- C1 -------------------------------------------------------------------

\* reference definition of the Levenshtein distance, by recursion on the
\* suffixes: unit cost for insert, delete and substitute, zero for a match
RECURSIVE Lev(_, _)
Lev(s, t) ==
    IF s = <<>> THEN Len(t)
    ELSE IF t = <<>> THEN Len(s)
    ELSE Min2(Min2(Lev(Tail(s), t) + 1, Lev(s, Tail(t)) + 1),
              Lev(Tail(s), Tail(t)) + (IF Head(s) = Head(t) THEN 0 ELSE 1))

\* C1: the bottom-right entry of the table returned for A and B is the
\* Levenshtein distance of A and B given by the reference definition
C1_DistanceIsLevenshtein == TablesReturned => dp[lenA][lenB] = Lev(a, b)

C1_Witness ==
    /\ pc = "built" /\ lenA = 3 /\ lenB = 2
    /\ dp[lenA][lenB] = 2 /\ \E k \in 1..lenB : \E l \in 1..lenA : b[k] = a[l]

\* ---- C2 -------------------------------------------------------------------

\* the cell the k-th Step is for in the construction order: the origin, the
\* first column top to bottom, the first row left to right, then the
\* interior row by row
ExpectedCell(k) ==
    IF k = 1 THEN <<0, 0>>
    ELSE IF k <= lenA + 1 THEN <<k - 1, 0>>
    ELSE IF k <= lenA + 1 + lenB THEN <<0, k - lenA - 1>>
    ELSE LET q == k - (lenA + 1 + lenB) - 1
         IN  <<(q \div lenB) + 1, (q % lenB) + 1>>

\* C2: the Steps are emitted origin first, then cells (i,0) by increasing i,
\* then cells (0,j) by increasing j, then the interior in row-major order,
\* every cell of the table once
C2_StepOrder ==
    TablesReturned =>
        /\ \A k \in 1..Len(steps) : Cell(k) = ExpectedCell(k)
        /\ \A i \in 0..lenA, j \in 0..lenB :
              \E k \in 1..Len(steps) : Cell(k) = <<i, j>>
        /\ \A k, l \in 1..Len(steps) :
              (Interior(k) /\ ~Interior(l)) => l < k

C2_Witness ==
    /\ pc = "built" /\ lenA = 2 /\ lenB = 3
    /\ Cell(3) = <<2, 0>> /\ Cell(4) = <<0, 1>> /\ Cell(7) = <<1, 1>>
    /\ Cell(10) = <<2, 1>>

\* ---- C3 -------------------------------------------------------------------

\* C3: an interior Step lists the delete, insert and diagonal candidates, its
\* chosen candidate has the least value, and ties go to the diagonal, then to
\* delete, then to insert
C3_ChosenIsMinWithTieBreak ==
    Built =>
        \A k \in 1..Len(steps) :
            Interior(k) =>
                LET s == steps[k]
                    c == s.candidates
                    least == Min2(Min2(c[1].value, c[2].value), c[3].value)
                IN  /\ Len(c) = 3
                    /\ c[1].op = "delete" /\ c[1].from = <<s.i - 1, s.j>>
                    /\ c[2].op = "insert" /\ c[2].from = <<s.i, s.j - 1>>
                    /\ c[3].op \in {"match", "replace"}
                    /\ c[3].from = <<s.i - 1, s.j - 1>>
                    /\ s.chosen.value = least
                    /\ s.chosen =
                         IF c[3].value = least THEN c[3]
                         ELSE IF c[1].value = least THEN c[1] ELSE c[2]

\* a Step where all three candidates tie and one where only delete and
\* insert tie
C3_Witness ==
    /\ pc = "built"
    /\ \E k \in 1..Len(steps) :
          /\ Interior(k)
          /\ steps[k].candidates[1].value = steps[k].candidates[3].value
          /\ steps[k].candidates[2].value = steps[k].candidates[3].value
          /\ steps[k].chosen.op = "replace"
    /\ \E k \in 1..Len(steps) :
          /\ Interior(k)
          /\ steps[k].candidates[1].value = steps[k].candidates[2].value
          /\ steps[k].candidates[3].value > steps[k].candidates[1].value
          /\ steps[k].chosen.op = "delete"

\* ---- C4 -------------------------------------------------------------------

\* C4: the Step list has (lenA+1) + lenB + lenA*lenB Steps and the last one
\* is for cell (lenA, lenB)
C4_StepCount ==
    Built =>
        /\ Len(steps) = (lenA + 1) + lenB + lenA * lenB
        /\ Cell(Len(steps)) = <<lenA, lenB>>

C4_Witness ==
    /\ pc = "built" /\ lenA = 3 /\ lenB = 2 /\ Len(steps) = 12
    /\ Cell(12) = <<3, 2>>

\* ---- C5 -------------------------------------------------------------------

\* decimal numerals, written out
Numeral(k) ==
    LET digits == <<"0", "1", "2", "3", "4", "5", "6", "7", "8", "9">>
    IN  IF k < 0 THEN "-" \o digits[1 - k] ELSE digits[k + 1]

CellKey(i, j) == Numeral(i) \o "," \o Numeral(j)

Walked == pc \in {"walking", "returned"}

LinkDeltas == {<<-1, 0>>, <<0, -1>>, <<-1, -1>>}

\* C5: the path built from the final cell holds (0,0) and (lenA,lenB), and
\* each cell of the followed chain is the one before it moved by (-1,0),
\* (0,-1) or (-1,-1)
C5_PathEndsAndLinks ==
    /\ pc = "returned" => {"0,0", CellKey(lenA, lenB)} \subseteq path
    /\ Walked =>
          /\ \A k \in 1..(Len(chain) - 1) :
                <<chain[k + 1][1] - chain[k][1],
                  chain[k + 1][2] - chain[k][2]>> \in LinkDeltas
          /\ path = {CellKey(chain[k][1], chain[k][2]) : k \in 1..Len(chain)}

\* a returned walk of a 3 x 2 table that took a diagonal and a straight link
C5_Witness ==
    /\ pc = "returned" /\ lenA = 3 /\ lenB = 2 /\ Len(chain) = 4
    /\ \E k \in 1..3 : chain[k + 1][1] = chain[k][1] - 1
                         /\ chain[k + 1][2] = chain[k][2] - 1
    /\ \E k \in 1..3 : chain[k + 1][2] = chain[k][2]

\* ---- C6 -------------------------------------------------------------------

InBounds == endI \in 0..lenA /\ endJ \in 0..lenB

Called == pc \notin {"input", "built"}

\* the walk from an in-bounds cell: at most endI + endJ + 1 cells visited,
\* i+j down by 1 on a delete or insert link and by 2 on a diagonal link,
\* and the return is at (0,0)
C6_BoundedDescent ==
    (Called /\ InBounds) =>
        /\ Walked
        /\ Len(chain) <= endI + endJ + 1
        /\ \A k \in 1..(Len(chain) - 1) :
              LET c == chain[k]
                  d == chain[k + 1]
                  op == parent[c[1]][c[2]][1].op
              IN  /\ op \in {"delete", "insert", "match", "replace"}
                  /\ (c[1] + c[2]) - (d[1] + d[2]) =
                        IF op \in {"delete", "insert"} THEN 1 ELSE 2
        /\ pc = "returned" => bi = 0 /\ bj = 0

\* C6: from any in-bounds start cell the walk ends at (0,0) having visited
\* at most endI + endJ + 1 cells, i+j going down by 1 or 2 on every link
C6_WalkTerminates ==
    /\ []C6_BoundedDescent
    /\ (pc = "walking" /\ InBounds) ~> (pc = "returned" /\ bi = 0 /\ bj = 0)

\* a walk that met the bound, and one that took a diagonal link
C6_Witness ==
    /\ pc = "returned" /\ InBounds /\ endI = 2 /\ endJ = 1
    /\ Len(chain) = 3
    /\ \E k \in 1..2 : chain[k + 1] = <<chain[k][1] - 1, chain[k][2] - 1>>

\* ---- C7 -------------------------------------------------------------------

\* C7 as stated: a call with a start cell outside the table signals
\* OutOfRange and no path set is built
C7_OutOfRangeSignalled ==
    (Called /\ ~InBounds) => pc = "OutOfRange"

\* C7 as amended: a call with a start cell outside the table signals nothing;
\* it finds no parent there and returns the set holding the start cell alone
C7_OutOfRangeReturnsStartCell ==
    (Called /\ ~InBounds) =>
        /\ Walked
        /\ path = {CellKey(endI, endJ)}
        /\ chain = <<<<endI, endJ>>>>
        /\ ParentAt(parent, bi, bj) = <<>>

C7_Witness ==
    /\ pc = "returned" /\ lenA = 2 /\ lenB = 2
    /\ endI = lenA + 1 /\ endJ = 1 /\ path = {"3,1"}

\* ---- C8 -------------------------------------------------------------------

\* C8: the first column holds i, the first row holds j, and an interior entry
\* is the least of the entry above plus 1, the entry to the left plus 1 and
\* the entry diagonally above plus 0 for equal characters, 1 otherwise
C8_TableRecurrence ==
    Built =>
        /\ \A i \in 0..lenA : dp[i][0] = i
        /\ \A j \in 0..lenB : dp[0][j] = j
        /\ \A i \in 1..lenA, j \in 1..lenB :
              dp[i][j] =
                Min2(Min2(dp[i - 1][j] + 1, dp[i][j - 1] + 1),
                     dp[i - 1][j - 1] + (IF a[i] = b[j] THEN 0 ELSE 1))

\* a table with an entry only delete attains and one only insert attains
C8_Witness ==
    /\ pc = "built" /\ lenA = 3 /\ lenB = 3
    /\ \E i \in 1..lenA, j \in 1..lenB :
          /\ dp[i][j] = dp[i - 1][j] + 1
          /\ dp[i][j] < dp[i][j - 1] + 1
          /\ dp[i][j] <= dp[i - 1][j - 1]
    /\ \E i \in 1..lenA, j \in 1..lenB :
          /\ dp[i][j] = dp[i][j - 1] + 1
          /\ dp[i][j] < dp[i - 1][j] + 1
          /\ dp[i][j] <= dp[i - 1][j - 1]

\* ---- C9 -------------------------------------------------------------------

AbcAbc == Built /\ a = <<"a", "b", "c">> /\ b = <<"a", "b", "c">>

\* C9 as stated: for "abc" and "abc" all nine interior Steps choose match
C9_AllInteriorMatch ==
    AbcAbc => \A k \in 1..Len(steps) : Interior(k) => steps[k].chosen.op = "match"

\* C9 as amended: for "abc" and "abc" the distance is 0 and the interior
\* Steps of the diagonal cells (1,1), (2,2), (3,3) choose match; the six
\* others choose insert right of the diagonal and delete below it
C9_DiagonalMatch ==
    AbcAbc =>
        /\ dp[3][3] = 0
        /\ \A k \in 1..Len(steps) :
              Interior(k) =>
                steps[k].chosen.op =
                    IF steps[k].i = steps[k].j THEN "match"
                    ELSE IF steps[k].i < steps[k].j THEN "insert" ELSE "delete"

C9_Witness ==
    /\ AbcAbc /\ pc = "built" /\ Len(steps) = 16
    /\ Cardinality({k \in 1..Len(steps) : Interior(k)}) = 9

\* ---- C10 ------------------------------------------------------------------

DeleteOnly == Built /\ lenA > 0 /\ lenB = 0

\* C10 as stated: for B empty and A not, the distance is lenA and every
\* Step, the one for (0,0) included, chooses delete
C10_AllDelete ==
    DeleteOnly =>
        /\ dp[lenA][lenB] = lenA
        /\ \A k \in 1..Len(steps) : steps[k].chosen.op = "delete"

\* C10 as amended: for B empty and A not, the distance is lenA, the first
\* Step, for (0,0), chooses init and every other Step chooses delete
C10_AllDeleteAfterOrigin ==
    DeleteOnly =>
        /\ dp[lenA][lenB] = lenA
        /\ steps[1].chosen.op = "init"
        /\ \A k \in 2..Len(steps) : steps[k].chosen.op = "delete"

C10_Witness ==
    /\ DeleteOnly /\ pc = "built" /\ a = <<"a", "b", "c">> /\ Len(steps) = 4

\* ---- C11 ------------------------------------------------------------------

\* the operation of the link followed out of the k-th cell of the chain
LinkOp(k) == parent[chain[k][1]][chain[k][2]][1].op

LinkCost(k) == IF LinkOp(k) \in {"delete", "insert", "replace"} THEN 1 ELSE 0

\* cost of the links from the k-th cell of the chain back to its last cell
RECURSIVE ChainCost(_)
ChainCost(k) == IF k >= Len(chain) THEN 0 ELSE LinkCost(k) + ChainCost(k + 1)

\* C11: the chain followed from (lenA,lenB) to (0,0) is an optimal alignment:
\* from every cell (i,j) on it the links back to (0,0) cost table[i][j], so
\* the whole chain costs table[lenA][lenB], the distance; a match link joins
\* equal characters and a replace link different ones
C11_ChainIsOptimal ==
    pc = "returned" =>
        /\ ChainCost(1) = dp[lenA][lenB]
        /\ ChainCost(1) = Lev(a, b)
        /\ \A k \in 1..Len(chain) : ChainCost(k) = dp[chain[k][1]][chain[k][2]]
        /\ \A k \in 1..(Len(chain) - 1) :
              /\ LinkOp(k) = "match" => a[chain[k][1]] = b[chain[k][2]]
              /\ LinkOp(k) = "replace" => a[chain[k][1]] # b[chain[k][2]]

\* a returned chain with a match, a replace and a delete link
C11_Witness ==
    /\ pc = "returned" /\ lenA = 3 /\ lenB = 2 /\ ChainCost(1) = 2
    /\ {LinkOp(k) : k \in 1..(Len(chain) - 1)} = {"match", "replace", "delete"}

\* ---- C12 ------------------------------------------------------------------

\* a render has read the Step list at the cursor and nothing has been typed
\* or clicked since
Rendered == phase \in {"effects", "crashed"}

\* C12: in every render the cursor is an index of the Step list of the current
\* inputs, 0 <= stepIdx <= steps.length - 1, also in the render that follows
\* an edit that shortens the list
C12_CursorInRange ==
    Rendered => (0 <= stepIdx /\ stepIdx <= Len(steps) - 1)

====
